---- MODULE Spec2Model ----
(***************************************************************************)
(* Model of egui_skia's Painter (src/src/painter.rs): the texture cache    *)
(* `paints`, and paint_and_update_textures, which applies the frame's      *)
(* texture deltas, draws the frame's primitives and then frees textures.   *)
(*                                                                         *)
(* Number encodings used throughout:                                       *)
(*   - an f32 position coordinate is an integer, or NaN (a reserved        *)
(*     integer that stands for every NaN);                                 *)
(*   - an f32 UV coordinate is an integer count of 1/65536 units (so the   *)
(*     source's 1.0 / 65536.0 is 1 and 1.0 is 65536), or NaN;              *)
(*   - the f32 arithmetic of the un-premultiply step is bit-exact: a       *)
(*     finite non-zero f32 is [cls |-> "fin", m, e] with value m * 2^e and *)
(*     2^23 <= m < 2^24, rounded to nearest-even after every operation.    *)
(***************************************************************************)
EXTENDS Integers, Sequences, FiniteSets, TLC

----------------------------------------------------------------------------
(* Bounds of the model                                                     *)

MaxSet   == 2   \* longest textures_delta.set list of a frame
MaxPrims == 3   \* longest primitive list of a frame
MaxDim   == 2   \* largest image width / height
MaxOff   == 2   \* largest patch offset coordinate
MaxCalls == 2   \* calls of paint_and_update_textures in the updater spec

TextureIds == {"T0", "T1"}
DpiValues  == {1, 2}

\* Option values: a panic is a string (None when there is none), an absent
\* position is the empty tuple, an image that could not be built is NoImage.
None    == "None"
NoPos   == << >>
NoImage == [w |-> 0, h |-> 0, px |-> << >>]

----------------------------------------------------------------------------
(* f32 arithmetic                                                          *)

\* 2^k for k in 0..30
Pow2Table ==
    << 1, 2, 4, 8, 16, 32, 64, 128, 256, 512, 1024, 2048, 4096, 8192,
       16384, 32768, 65536, 131072, 262144, 524288, 1048576, 2097152,
       4194304, 8388608, 16777216, 33554432, 67108864, 134217728,
       268435456, 536870912, 1073741824 >>
Pow2(k) == Pow2Table[k + 1]

\* number of bits of n, for 2^15 <= n < 2^24 (the high part of a product)
BitLen(n) ==
    IF n < 1048576
    THEN (IF n < 65536 THEN 16 ELSE IF n < 131072 THEN 17 ELSE IF n < 262144 THEN 18
          ELSE IF n < 524288 THEN 19 ELSE 20)
    ELSE (IF n < 2097152 THEN 21 ELSE IF n < 4194304 THEN 22 ELSE IF n < 8388608 THEN 23
          ELSE 24)

F32Zero == [cls |-> "zero", m |-> 0, e |-> 0]
F32Inf  == [cls |-> "inf",  m |-> 0, e |-> 0]
F32NaN  == [cls |-> "nan",  m |-> 0, e |-> 0]

\* Round to nearest, ties to even: q is the value with its low s bits cut
\* off, rem those s bits; sticky says that non-zero bits were already
\* dropped below rem.
RoundNearestEven(q, rem, s, sticky) ==
    IF s = 0 THEN q
    ELSE IF \/ rem > Pow2(s - 1)
            \/ rem = Pow2(s - 1) /\ sticky
            \/ rem = Pow2(s - 1) /\ ~sticky /\ q % 2 = 1
         THEN q + 1
         ELSE q

\* a rounded 24-bit mantissa that carried into bit 24 is renormalised
F32Norm(m, e) ==
    IF m = Pow2(24) THEN [cls |-> "fin", m |-> Pow2(23), e |-> e + 1]
    ELSE [cls |-> "fin", m |-> m, e |-> e]

\* The product Ph * 256 + Pl of up to 32 bits, times 2^e, rounded to the 24
\* bits of an f32 by dropping its low s bits.
F32RoundProduct(Ph, Pl, s, e) ==
    F32Norm(RoundNearestEven(Ph * Pow2(8 - s) + Pl \div Pow2(s), Pl % Pow2(s), s, FALSE), e + s)

F32Product(Ph, Pl, e) == F32RoundProduct(Ph, Pl, BitLen(Ph) - 16, e)

\* f32 product of the integer n (0..255, exact as f32) and the f32 x.
\* The 32-bit product n * x.m is kept as Ph * 256 + Pl.
F32MulU8(n, x) ==
    IF x.cls = "nan" THEN F32NaN
    ELSE IF x.cls = "inf" THEN (IF n = 0 THEN F32NaN ELSE F32Inf)
    ELSE IF n = 0 \/ x.cls = "zero" THEN F32Zero
    ELSE F32Product(n * (x.m \div 256) + (n * (x.m % 256)) \div 256,
                    (n * (x.m % 256)) % 256,
                    x.e)

\* Long division, n further quotient bits at once (n <= 7 keeps r * 2^n
\* within 31 bits): qr is <<quotient so far, remainder>>.
DivBits(qr, d, n) ==
    << qr[1] * Pow2(n) + (qr[2] * Pow2(n)) \div d, (qr[2] * Pow2(n)) % d >>

\* floor(x * 2^25 / d) and whether the division left a remainder
Quotient25(x, d) ==
    DivBits(DivBits(DivBits(DivBits(<< x \div d, x % d >>, d, 7), d, 7), d, 7), d, 4)

\* The 25- or 26-bit quotient qr[1] with remainder qr[2], times 2^e, rounded
\* to the 24 bits of an f32.
F32RoundQuotient(Q, sticky, s, e) ==
    F32Norm(RoundNearestEven(Q \div Pow2(s), Q % Pow2(s), s, sticky), e + s)

F32Quotient(qr, e) ==
    F32RoundQuotient(qr[1], qr[2] # 0, IF qr[1] >= Pow2(25) THEN 2 ELSE 1, e)

\* f32 quotient x / y of two non-negative f32
F32Div(x, y) ==
    IF x.cls = "nan" \/ y.cls = "nan" THEN F32NaN
    ELSE IF x.cls = "inf" THEN (IF y.cls = "inf" THEN F32NaN ELSE F32Inf)
    ELSE IF y.cls = "inf" THEN F32Zero
    ELSE IF y.cls = "zero" THEN (IF x.cls = "zero" THEN F32NaN ELSE F32Inf)
    ELSE IF x.cls = "zero" THEN F32Zero
    ELSE F32Quotient(Quotient25(x.m, y.m), x.e - y.e - 25)

\* Rust's `x as u8` for a non-negative f32: truncates, saturates, NaN is 0
F32AsU8(x) ==
    IF x.cls = "nan" \/ x.cls = "zero" THEN 0
    ELSE IF x.cls = "inf" \/ x.e >= 0 THEN 255
    ELSE IF 0 - x.e >= 24 THEN 0
    ELSE LET t == x.m \div Pow2(0 - x.e) IN IF t > 255 THEN 255 ELSE t

\* 1.0 / 255.0 as f32: 0x3B808081
F32_INV_255 == [cls |-> "fin", m |-> 8421505, e |-> -31]

\* skia_safe::Color4f::from(Color), one channel: c as f32 * (1.0 / 255.0)
Color4fChannel(c) == F32MulU8(c, F32_INV_255)

----------------------------------------------------------------------------
(* Mesh batcher: push_vert and the triangle loop                           *)

\* A Color32 / skia Color is <<r, g, b, a>>, each 0..255.
\* push_vert's color conversion (un-premultiply), one of r, g, b, with
\* cfa the alpha cf.a:  cf = Color4f::from(c); cf.r /= cf.a; (cf.r * 255.0) as u8
UnpremultiplyChannel(c, cfa) ==
    F32AsU8(F32MulU8(255, F32Div(Color4fChannel(c), cfa)))

\* cf.a, and the three channels divided by it
UnpremultiplyBy(col, cfa) ==
    << UnpremultiplyChannel(col[1], cfa),
       UnpremultiplyChannel(col[2], cfa),
       UnpremultiplyChannel(col[3], cfa),
       col[4] >>

\* Color::from_argb(c.a(), (cf.r * 255.0) as u8, (cf.g * 255.0) as u8, (cf.b * 255.0) as u8)
Unpremultiply(col) == UnpremultiplyBy(col, Color4fChannel(col[4]))

\* the reserved coordinate value that stands for NaN
NaN == 0 - 1000000

IsNaN(x) == x = NaN

\* f32 `==`: NaN equals nothing
F32Eq(x, y) == ~IsNaN(x) /\ ~IsNaN(y) /\ x = y

\* v.uv == Pos2::ZERO
UvIsZero(uv) == F32Eq(uv[1], 0) /\ F32Eq(uv[2], 0)

\* 1.0 / 65536.0 in UV units
UV_EPSILON == 1

\* Variant: only the x coordinate is tested for NaN.
PushVertNaNXOnly(out, v) ==
    [pos    |-> Append(out.pos, IF IsNaN(v.pos[1]) THEN <<0, 0>> ELSE v.pos),
     texs   |-> Append(out.texs, v.uv),
     colors |-> Append(out.colors, Unpremultiply(v.color))]

\* A Vertex is [pos |-> <<x, y>>, uv |-> <<u, v>>, color |-> <<r, g, b, a>>].
\* push_vert appends one element to each of pos, texs and colors.
PushVert(out, v) ==
    [pos    |-> Append(out.pos, IF IsNaN(v.pos[1]) \/ IsNaN(v.pos[2]) THEN <<0, 0>> ELSE v.pos),
     texs   |-> Append(out.texs, v.uv),
     colors |-> Append(out.colors, Unpremultiply(v.color))]

\* Variant: the fixup is applied when any of the three UVs is (0, 0).
FixupTriangleAnyZero(v0, v1, v2) ==
    IF UvIsZero(v0.uv) \/ UvIsZero(v1.uv) \/ UvIsZero(v2.uv)
    THEN << v0, [v1 EXCEPT !.uv = <<0, UV_EPSILON>>], [v2 EXCEPT !.uv = <<UV_EPSILON, 0>>] >>
    ELSE << v0, v1, v2 >>

\* The three vertices pushed for one triangle, after the all-zero UV fixup
\* applied to the local copies v1 and v2.
FixupTriangle(v0, v1, v2) ==
    IF UvIsZero(v0.uv) /\ UvIsZero(v1.uv) /\ UvIsZero(v2.uv)
    THEN << v0, [v1 EXCEPT !.uv = <<0, UV_EPSILON>>], [v2 EXCEPT !.uv = <<UV_EPSILON, 0>>] >>
    ELSE << v0, v1, v2 >>

\* push_vert(&v0); push_vert(&v1); push_vert(&v2)
PushTriangle(out, t) == PushVert(PushVert(PushVert(out, t[1]), t[2]), t[3])

EmptyBatch == [pos |-> <<>>, texs |-> <<>>, colors |-> <<>>]

\* `while i < mesh.indices.len()`: i counts from 0 as in the source.  An
\* index list whose length is no multiple of three, or an index past the
\* vertex list, panics on the slice access.
RECURSIVE TriangleLoop(_, _, _)
TriangleLoop(mesh, i, out) ==
    IF i >= Len(mesh.indices) THEN [ok |-> TRUE, batch |-> out]
    ELSE IF \/ i + 2 >= Len(mesh.indices)
            \/ \E k \in 1..3 : mesh.indices[i + k] >= Len(mesh.vertices)
         THEN [ok |-> FALSE, batch |-> out]
    ELSE TriangleLoop(mesh, i + 3,
             PushTriangle(out, FixupTriangle(mesh.vertices[mesh.indices[i + 1] + 1],
                                             mesh.vertices[mesh.indices[i + 2] + 1],
                                             mesh.vertices[mesh.indices[i + 3] + 1])))

\* The vertex buffers of one sub-batch
MeshBatch(mesh) == TriangleLoop(mesh, 0, EmptyBatch)

\* epaint's Mesh::split_to_u16: a mesh of at most 65535 vertices is returned
\* as the single sub-batch, indices and vertices unchanged.
SplitToU16(mesh) == << mesh >>

----------------------------------------------------------------------------
(* Texture updater                                                         *)

\* A pixel is the premultiplied <<r, g, b, a>>.  An image is
\* [w, h, px] with px a function of the coordinates <<x, y>>.
Transparent == <<0, 0, 0, 0>>

Coords(w, h) == (0..(w - 1)) \X (0..(h - 1))

\* Image::from_raster_data with row stride w * 4 over w * h * 4 bytes:
\* NoImage when the size is empty or the data is shorter than the image.
FromRasterData(w, h, pixels) ==
    IF w <= 0 \/ h <= 0 \/ Len(pixels) < w * h THEN NoImage
    ELSE [w |-> w, h |-> h,
          px |-> [p \in Coords(w, h) |-> pixels[p[2] * w + p[1] + 1]]]

\* FontImage::srgba_pixels(Some(1.0)): a coverage <<k>> (one channel, here in
\* 1/255 units) becomes the premultiplied white of that alpha.
CoverageColor(cov) == << cov[1], cov[1], cov[1], cov[1] >>
SrgbaPixels(coverage) == [i \in 1..Len(coverage) |-> CoverageColor(coverage[i])]

\* ImageData is [kind, size |-> <<w, h>>, pixels]
DeltaImage(data) ==
    IF data.kind = "Color"
    THEN FromRasterData(data.size[1], data.size[2], data.pixels)
    ELSE FromRasterData(data.size[1], data.size[2], SrgbaPixels(data.pixels))

Div255(x) == (x + 127) \div 255

\* SrcOver of premultiplied pixels, the blend of draw_image without a paint
SrcOver(src, dst) == [c \in 1..4 |-> src[c] + Div255(dst[c] * (255 - src[4]))]

InRect(p, r) == r[1] <= p[1] /\ p[1] < r[3] /\ r[2] <= p[2] /\ p[2] < r[4]

\* Surface::new_raster_n32_premul: zero-initialised pixels
NewRaster(w, h) == [w |-> w, h |-> h, px |-> [p \in Coords(w, h) |-> Transparent]]

\* canvas.draw_image(img, at, None) on a raster surface under clip
SurfaceDrawImage(surf, img, at, clip) ==
    [surf EXCEPT !.px = [p \in Coords(surf.w, surf.h) |->
        IF InRect(p, clip) /\ InRect(p, <<at[1], at[2], at[1] + img.w, at[2] + img.h>>)
        THEN SrcOver(img.px[<<p[1] - at[1], p[2] - at[2]>>], surf.px[p])
        ELSE surf.px[p]]]

\* canvas.clear(color) on a raster surface under clip
SurfaceClear(surf, color, clip) ==
    [surf EXCEPT !.px = [p \in Coords(surf.w, surf.h) |->
        IF InRect(p, clip) THEN color ELSE surf.px[p]]]

\* Variant: the patch rectangle is not cleared before the patch is drawn.
PatchImageNoClear(old_image, delta_image, pos) ==
    SurfaceDrawImage(
        SurfaceDrawImage(NewRaster(old_image.w, old_image.h), old_image, <<0, 0>>,
                         <<0, 0, old_image.w, old_image.h>>),
        delta_image, pos,
        <<pos[1], pos[2], pos[1] + delta_image.w, pos[2] + delta_image.h>>)

\* The `Some(pos)` arm: the old image with the patch composited at pos
PatchImage(old_image, delta_image, pos) ==
    LET all  == <<0, 0, old_image.w, old_image.h>>
        s1   == SurfaceDrawImage(NewRaster(old_image.w, old_image.h), old_image, <<0, 0>>, all)
        clip == <<pos[1], pos[2], pos[1] + delta_image.w, pos[2] + delta_image.h>>
        s2   == SurfaceClear(s1, Transparent, clip)
    IN  SurfaceDrawImage(s2, delta_image, pos, clip)

\* TextureFilter -> FilterMode
FilterModeOf(filter) == IF filter = "Nearest" THEN "Nearest" ELSE "Linear"

\* Variant: the two filters are taken the other way round.
SamplingOptionsSwapped(options, cpuFix) ==
    [filter |-> FilterModeOf(options.minification),
     mipmap |-> IF cpuFix THEN "None"
                ELSE IF options.magnification = "Nearest" THEN "Nearest" ELSE "Linear"]

\* SamplingOptions::new(filter_mode, mm_mode)
SamplingOptionsOf(options, cpuFix) ==
    [filter |-> FilterModeOf(options.magnification),
     mipmap |-> IF cpuFix THEN "None"
                ELSE IF options.minification = "Nearest" THEN "Nearest" ELSE "Linear"]

\* The paint of a cache entry: its shader samples image with these settings.
\* local_matrix is Matrix::scale((1 / w, 1 / h)), kept as the divisors.
MakePaint(image, options, cpuFix) ==
    [sampling     |-> SamplingOptionsOf(options, cpuFix),
     tile_mode    |-> <<"Clamp", "Clamp">>,
     local_matrix |-> <<image.w, image.h>>]

MapRemove(m, k) == [x \in (DOMAIN m) \ {k} |-> m[x]]
MapInsert(m, k, v) == [x \in (DOMAIN m) \cup {k} |-> IF x = k THEN v ELSE m[x]]

\* Variant: a patch for an id without an entry is stored as a full image.
ApplySetEntryPatchCreates(cache, entry, cpuFix) ==
    IF DeltaImage(entry.delta.image) = NoImage THEN [panic |-> "image", paints |-> cache]
    ELSE IF entry.delta.pos = NoPos \/ entry.id \notin DOMAIN cache
         THEN [panic |-> None,
               paints |-> MapInsert(cache, entry.id,
                   [paint |-> MakePaint(DeltaImage(entry.delta.image), entry.delta.options, cpuFix),
                    image |-> DeltaImage(entry.delta.image)])]
    ELSE [panic |-> None,
          paints |-> MapInsert(MapRemove(cache, entry.id), entry.id,
              [paint |-> MakePaint(PatchImage(cache[entry.id].image, DeltaImage(entry.delta.image),
                                              entry.delta.pos),
                                   entry.delta.options, cpuFix),
               image |-> PatchImage(cache[entry.id].image, DeltaImage(entry.delta.image),
                                    entry.delta.pos)])]

\* One iteration of textures_delta.set.iter().for_each: entry is
\* [id, delta] with delta = [image, pos, options].  The result is the cache
\* after the iteration, or the panic that ended it.
ApplySetEntry(cache, entry, cpuFix) ==
    LET delta_image == DeltaImage(entry.delta.image)
    IN  IF delta_image = NoImage THEN [panic |-> "image", paints |-> cache]
        ELSE IF entry.delta.pos = NoPos
             THEN [panic |-> None,
                   paints |-> MapInsert(cache, entry.id,
                       [paint |-> MakePaint(delta_image, entry.delta.options, cpuFix),
                        image |-> delta_image])]
        ELSE IF entry.id \notin DOMAIN cache THEN [panic |-> "patch", paints |-> cache]
        ELSE LET image == PatchImage(cache[entry.id].image, delta_image, entry.delta.pos)
             IN  [panic |-> None,
                  paints |-> MapInsert(MapRemove(cache, entry.id), entry.id,
                      [paint |-> MakePaint(image, entry.delta.options, cpuFix),
                       image |-> image])]

----------------------------------------------------------------------------
(* Canvas and primitive renderer                                           *)

\* The canvas is [matrix, clip, stack].  matrix = [s, tx, ty] is a uniform
\* scale followed by a translation (the only matrices the painter builds),
\* clip is the device-space clip rectangle <<x0, y0, x1, y1>>, and stack
\* holds the [matrix, clip] pairs pushed by save.
IdentityMatrix == [s |-> 1, tx |-> 0, ty |-> 0]

\* M44::new_identity().set_scale(dpi, dpi, 1.0)
ScaleMatrix(dpi) == [s |-> dpi, tx |-> 0, ty |-> 0]

MapRect(m, r) == << m.s * r[1] + m.tx, m.s * r[2] + m.ty, m.s * r[3] + m.tx, m.s * r[4] + m.ty >>

Max(a, b) == IF a >= b THEN a ELSE b
Min(a, b) == IF a <= b THEN a ELSE b

Intersect(a, b) ==
    LET r == << Max(a[1], b[1]), Max(a[2], b[2]), Min(a[3], b[3]), Min(a[4], b[4]) >>
    IN  IF r[1] >= r[3] \/ r[2] >= r[4] THEN <<0, 0, 0, 0>> ELSE r

CanvasSetMatrix(c, m) == [c EXCEPT !.matrix = m]

\* AutoCanvasRestore::guard(canvas, true) saves; dropping the guard restores
CanvasSave(c) == [c EXCEPT !.stack = Append(@, [matrix |-> c.matrix, clip |-> c.clip])]

CanvasRestore(c) ==
    IF c.stack = << >> THEN c
    ELSE [matrix |-> c.stack[Len(c.stack)].matrix,
          clip   |-> c.stack[Len(c.stack)].clip,
          stack  |-> SubSeq(c.stack, 1, Len(c.stack) - 1)]

CanvasClipRect(c, rect) == [c EXCEPT !.clip = Intersect(@, MapRect(c.matrix, rect))]

CanvasTranslate(c, d) ==
    [c EXCEPT !.matrix = [@ EXCEPT !.tx = @ + c.matrix.s * d[1], !.ty = @ + c.matrix.s * d[2]]]

SaveCount(c) == Len(c.stack) + 1

JoinDraws(r, n) == [panic |-> n.panic, canvas |-> n.canvas, draws |-> r.draws \o n.draws]

\* The draw call of one sub-batch
MeshDraw(prim, mesh, batch, paint, c) ==
    [kind       |-> "Mesh",
     prim       |-> prim,
     vertices   |-> batch,
     blend      |-> "Modulate",
     texture_id |-> mesh.texture_id,
     paint      |-> paint,
     matrix     |-> c.matrix,
     clip       |-> c.clip,
     save_count |-> SaveCount(c)]

\* Variant: a sub-batch whose texture is not cached is skipped.
DrawBatchSkipsMissing(c, cache, prim, mesh, b) ==
    IF ~b.ok THEN [panic |-> "index", canvas |-> c, draws |-> << >>]
    ELSE IF mesh.texture_id \notin DOMAIN cache
         THEN [panic |-> None, canvas |-> CanvasClipRect(c, prim.clip_rect), draws |-> << >>]
    ELSE [panic  |-> None,
          canvas |-> CanvasClipRect(c, prim.clip_rect),
          draws  |-> << MeshDraw(prim, mesh, b.batch, cache[mesh.texture_id].paint,
                                 CanvasClipRect(c, prim.clip_rect)) >>]

\* One sub-batch with vertex buffers b, drawn on the saved canvas c: the
\* canvas as the guard holds it afterwards, the draw call made and the
\* panic, if any.
DrawBatch(c, cache, prim, mesh, b) ==
    IF ~b.ok THEN [panic |-> "index", canvas |-> c, draws |-> << >>]
    ELSE IF mesh.texture_id \notin DOMAIN cache
         THEN [panic |-> "paint", canvas |-> CanvasClipRect(c, prim.clip_rect), draws |-> << >>]
    ELSE [panic  |-> None,
          canvas |-> CanvasClipRect(c, prim.clip_rect),
          draws  |-> << MeshDraw(prim, mesh, b.batch, cache[mesh.texture_id].paint,
                                 CanvasClipRect(c, prim.clip_rect)) >>]

\* `for mesh in &meshes`, from sub-batch k on; r is the result so far
RECURSIVE DrawBatches(_, _, _, _, _)
DrawBatches(r, cache, prim, meshes, k) ==
    IF k > Len(meshes) \/ r.panic # None THEN r
    ELSE DrawBatches(
             JoinDraws(r, DrawBatch(r.canvas, cache, prim, meshes[k], MeshBatch(meshes[k]))),
             cache, prim, meshes, k + 1)

\* dropping the guard, on return and on unwinding
DropGuard(r) == [panic |-> r.panic, canvas |-> CanvasRestore(r.canvas), draws |-> r.draws]

\* Primitive::Mesh arm
DrawMesh(c, cache, prim, dpi) ==
    DropGuard(DrawBatches(
        [panic |-> None, canvas |-> CanvasSave(CanvasSetMatrix(c, ScaleMatrix(dpi))), draws |-> << >>],
        cache, prim, SplitToU16(prim.mesh), 1))

\* Primitive::Callback arm. The payload of a PaintCallback is any value;
\* `downcast().unwrap()` panics unless it is this painter's callback type.
Downcast(prim) == prim.payload = "EguiSkiaPaintCallback"

\* The boxed closure records the user's callback into a drawable with cull
\* rectangle skia_rect; a panic of the user's callback unwinds through it.
CallbackPanics(prim) == prim.closure = "Panics"

\* The replay of the drawable, under the canvas state logged here.
CallbackDraw(prim, skia_rect, arc) ==
    [kind       |-> "Callback",
     prim       |-> prim,
     cull_rect  |-> skia_rect,
     matrix     |-> arc.matrix,
     clip       |-> arc.clip,
     save_count |-> SaveCount(arc)]

\* Both panics come before the first canvas call of the arm.
DrawCallback(c, prim, dpi) ==
    IF ~Downcast(prim) THEN [panic |-> "downcast", canvas |-> c, draws |-> << >>]
    ELSE IF CallbackPanics(prim) THEN [panic |-> "callback", canvas |-> c, draws |-> << >>]
    ELSE DropGuard(
        [panic  |-> None,
         canvas |-> CanvasTranslate(CanvasClipRect(CanvasSave(c), prim.clip_rect),
                                    << prim.rect[1], prim.rect[2] >>),
         draws  |-> << CallbackDraw(prim,
                           << prim.rect[1] * dpi, prim.rect[2] * dpi, prim.rect[3] * dpi, prim.rect[4] * dpi >>,
                           CanvasTranslate(CanvasClipRect(CanvasSave(c), prim.clip_rect),
                                           << prim.rect[1], prim.rect[2] >>)) >>])

\* One iteration of `for primitive in primitives`
DrawPrimitive(c, cache, prim, dpi) ==
    IF prim.kind = "Mesh" THEN DrawMesh(c, cache, prim, dpi)
    ELSE DrawCallback(c, prim, dpi)

\* Variant: the free loop is left out.
FreeTexturesNever(cache, free) == cache

\* textures_delta.free.iter().for_each(|id| self.paints.remove(id))
FreeTextures(cache, free) == [x \in (DOMAIN cache) \ free |-> cache[x]]

\* Variant: the primitive loop runs before the set loop.
NextPcDrawFirst(c, s, p) ==
    IF p < Len(c.primitives) THEN "draw"
    ELSE IF s < Len(c.set) THEN "set"
    ELSE "free"

\* The control flow of paint_and_update_textures: the set loop, then the
\* primitive loop, then the free loop.  s and p count finished iterations.
NextPc(c, s, p) ==
    IF s < Len(c.set) THEN "set"
    ELSE IF p < Len(c.primitives) THEN "draw"
    ELSE "free"

----------------------------------------------------------------------------
(* Inputs of the bounded model                                             *)

SeqsUpTo(S, n) == UNION { [1..k -> S] : k \in 0..n }

TextureFilters == {"Nearest", "Linear"}
AllOptions     == [magnification : TextureFilters, minification : TextureFilters]
LinearOptions  == [magnification |-> "Linear", minification |-> "Linear"]

\* A ColorImage whose pixels all differ: odd tags are opaque, even tags
\* half transparent.
TagAlpha(tag) == IF tag % 2 = 1 THEN 255 ELSE 128
ColorImage(tag, w, h) ==
    [kind |-> "Color", size |-> <<w, h>>,
     pixels |-> [i \in 1..(w * h) |-> << 10 * tag + i, 0, i, TagAlpha(tag) >>]]

\* A FontImage of decreasing coverage
FontImage(w, h) ==
    [kind |-> "Font", size |-> <<w, h>>,
     pixels |-> [i \in 1..(w * h) |-> << 255 - 20 * i >>]]

\* A ColorImage whose pixel buffer is shorter than its size
ShortImage == [kind |-> "Color", size |-> <<2, 1>>, pixels |-> << <<1, 1, 1, 1>> >>]

SetEntry(id, image, pos, options) ==
    [id |-> id, delta |-> [image |-> image, pos |-> pos, options |-> options]]

Offsets == {NoPos} \cup ((0..MaxOff) \X (0..MaxOff))

\* Meshes
Vertex(pos, uv, color) == [pos |-> pos, uv |-> uv, color |-> color]
White == <<255, 255, 255, 255>>

Mesh(id, vertices, indices) == [texture_id |-> id, vertices |-> vertices, indices |-> indices]
NoMesh == Mesh("", << >>, << >>)

UnitTriangle ==
    << Vertex(<<0, 0>>, <<0, 0>>, White),
       Vertex(<<4, 0>>, <<65536, 0>>, White),
       Vertex(<<0, 4>>, <<0, 65536>>, White) >>

MeshPrimitive(mesh) ==
    [kind |-> "Mesh", clip_rect |-> <<0, 0, 4, 4>>, mesh |-> mesh, rect |-> <<0, 0, 0, 0>>,
     payload |-> "", closure |-> ""]

\* A callback primitive: the type of its payload and, for a payload of the
\* painter's type, whether the user's callback returns or panics.
CallbackOf(payload, closure) ==
    [kind |-> "Callback", clip_rect |-> <<0, 0, 4, 4>>, mesh |-> NoMesh, rect |-> <<1, 1, 3, 3>>,
     payload |-> payload, closure |-> closure]
CallbackPrimitive == CallbackOf("EguiSkiaPaintCallback", "Returns")
FailingCallbacks == { CallbackOf("Other", ""), CallbackOf("EguiSkiaPaintCallback", "Panics") }

\* Frames of the main specification: full deltas of a 1x1 image for both
\* texture ids and a patch delta for T0, a triangle textured with T0, a
\* callback.
FrameSetEntries ==
    { SetEntry(id, ColorImage(1, 1, 1), NoPos, LinearOptions) : id \in TextureIds }
        \cup { SetEntry("T0", ColorImage(1, 1, 1), <<0, 0>>, LinearOptions) }
FramePrimitives ==
    { MeshPrimitive(Mesh("T0", UnitTriangle, <<0, 1, 2>>)), CallbackPrimitive }
\* A panic ends the call, so a failing callback is the last primitive of
\* its list: the first of the call, or after one primitive that was drawn.
FramePrimitiveLists ==
    SeqsUpTo(FramePrimitives, MaxPrims)
        \cup { Append(s, f) : s \in SeqsUpTo(FramePrimitives, 1), f \in FailingCallbacks }
FrameInputs ==
    [dpi : DpiValues,
     primitives : FramePrimitiveLists,
     set : SeqsUpTo(FrameSetEntries, MaxSet),
     free : SUBSET TextureIds]

\* Frames of the texture updater specification: one delta for T0 per call;
\* opaque and half transparent color images of the smallest and largest
\* widths and heights and a font image, at every offset, and every filter
\* combination.
ImageTags == {1, 2}
ImageDims == {1, MaxDim}
UpdaterImages ==
    { ColorImage(tag, w, h) : tag \in ImageTags, w \in ImageDims, h \in ImageDims }
        \cup { FontImage(MaxDim, MaxDim) }
UpdaterSetEntries ==
    { SetEntry("T0", image, pos, LinearOptions) : image \in UpdaterImages, pos \in Offsets }
        \cup { SetEntry("T0", image, NoPos, options) :
                  image \in {ColorImage(1, 1, 1), FontImage(1, 1)}, options \in AllOptions }
        \cup { SetEntry("T0", ShortImage, NoPos, LinearOptions) }
UpdaterInputs ==
    [dpi : {1}, primitives : {<< >>}, set : { <<e>> : e \in UpdaterSetEntries }, free : {{}}]

\* Frames of the mesh batcher specification: T0 is created, one mesh over
\* three sample vertices is drawn with it, T0 is freed.
VertexSamples ==
    { Vertex(<<1, 2>>,     <<0, 0>>,     White),
      Vertex(<<NaN, 2>>, <<0, 0>>,     <<1, 2, 3, 3>>),
      Vertex(<<3, NaN>>, <<0, 0>>,     <<64, 128, 0, 128>>),
      Vertex(<<5, 6>>,     <<0, 32768>>, <<10, 20, 30, 255>>),
      Vertex(<<NaN, NaN>>, <<65536, 65536>>, <<0, 0, 0, 0>>),
      Vertex(<<7, 8>>,     <<NaN, 0>>, <<5, 0, 0, 0>>),
      Vertex(<<9, 9>>,     <<0, 0>>,     <<200, 100, 1, 100>>) }
IndexSamples ==
    { <<0, 1, 2>>, <<0, 1, 2, 2, 1, 0>>, <<1, 1, 1, 0, 1, 2>>, << >>, <<0, 1>>, <<0, 1, 3>> }
MeshSamples ==
    { Mesh("T0", vs, is) : vs \in [1..3 -> VertexSamples], is \in IndexSamples }
MeshInputs ==
    [dpi : {1},
     primitives : { << MeshPrimitive(m) >> : m \in MeshSamples },
     set : { << SetEntry("T0", ColorImage(1, 1, 1), NoPos, LinearOptions) >> },
     free : {{"T0"}}]

----------------------------------------------------------------------------
(* State                                                                   *)

VARIABLES
    paints,     \* Painter.paints: TextureId -> [paint, image]
    canvas,     \* the caller's canvas, the same one on every call
    cpu_fix,    \* whether the build has the cpu_fix feature
    pc,         \* "new" | "set" | "draw" | "free" | "returned" | "panicked"
    panic,      \* which unwrap or index panicked, None while none has
    call,       \* the arguments of the running call
    si,         \* finished iterations of the set loop
    pi,         \* finished iterations of the primitive loop
    drawn,      \* draw calls made on the canvas by the running call
    keys0,      \* history: the cache's ids when the running call began
    live,       \* history: ids set minus ids freed by the calls so far
    calls       \* calls begun (counted in the updater specification)

vars == << paints, canvas, cpu_fix, pc, panic, call, si, pi, drawn, keys0, live, calls >>

NoCall == [dpi |-> 1, primitives |-> << >>, set |-> << >>, free |-> {}]
EmptyMap == [x \in {} |-> NoImage]
SurfaceClip == <<0, 0, 16, 16>>

SetIds(c, n) == { c.set[k].id : k \in 1..n }

\* Painter::new(), a fresh canvas
Init ==
    /\ paints = EmptyMap
    /\ canvas = [matrix |-> IdentityMatrix, clip |-> SurfaceClip, stack |-> << >>]
    /\ cpu_fix \in BOOLEAN
    /\ pc = "new"
    /\ panic = None
    /\ call = NoCall
    /\ si = 0
    /\ pi = 0
    /\ drawn = << >>
    /\ keys0 = {}
    /\ live = {}
    /\ calls = 0

\* paint_and_update_textures is entered with the arguments f
BeginCall(f) ==
    /\ pc \in {"new", "returned"}
    /\ call' = f
    /\ si' = 0
    /\ pi' = 0
    /\ drawn' = << >>
    /\ keys0' = DOMAIN paints
    /\ live' = (live \cup SetIds(f, Len(f.set))) \ f.free
    /\ pc' = NextPc(f, 0, 0)
    /\ UNCHANGED << paints, canvas, cpu_fix, panic >>

\* the next entry of textures_delta.set
SetResult(r) ==
    IF r.panic # None
    THEN /\ pc' = "panicked"
         /\ panic' = r.panic
         /\ UNCHANGED << paints, si >>
    ELSE /\ paints' = r.paints
         /\ si' = si + 1
         /\ pc' = NextPc(call, si + 1, pi)
         /\ UNCHANGED panic

SetStep ==
    /\ pc = "set"
    /\ SetResult(ApplySetEntry(paints, call.set[si + 1], cpu_fix))
    /\ UNCHANGED << canvas, cpu_fix, call, pi, drawn, keys0, live, calls >>

\* the next primitive
DrawResult(r) ==
    /\ canvas' = r.canvas
    /\ drawn' = drawn \o r.draws
    /\ IF r.panic # None
       THEN /\ pc' = "panicked"
            /\ panic' = r.panic
            /\ UNCHANGED pi
       ELSE /\ pi' = pi + 1
            /\ pc' = NextPc(call, si, pi + 1)
            /\ UNCHANGED panic

DrawStep ==
    /\ pc = "draw"
    /\ DrawResult(DrawPrimitive(canvas, paints, call.primitives[pi + 1], call.dpi))
    /\ UNCHANGED << paints, cpu_fix, call, si, keys0, live, calls >>

\* the free loop and the return
FreeStep ==
    /\ pc = "free"
    /\ paints' = FreeTextures(paints, call.free)
    /\ pc' = "returned"
    /\ call' = NoCall
    /\ si' = 0
    /\ pi' = 0
    /\ drawn' = << >>
    /\ keys0' = {}
    /\ UNCHANGED << canvas, cpu_fix, panic, live, calls >>

\* A frame of the host application
FrameCall ==
    /\ pc \in {"new", "returned"}
    /\ UNCHANGED calls
    /\ \E f \in FrameInputs : BeginCall(f)

Next == FrameCall \/ SetStep \/ DrawStep \/ FreeStep

Spec == Init /\ [][Next]_vars

\* Texture updates only
UpdaterCall ==
    /\ pc \in {"new", "returned"}
    /\ calls < MaxCalls
    /\ calls' = calls + 1
    /\ \E f \in UpdaterInputs : BeginCall(f)

NextUpdater == UpdaterCall \/ SetStep \/ FreeStep

SpecUpdater == Init /\ [][NextUpdater]_vars

\* One mesh per frame
MeshCall ==
    /\ pc \in {"new", "returned"}
    /\ UNCHANGED calls
    /\ \E f \in MeshInputs : BeginCall(f)

NextMesh == MeshCall \/ SetStep \/ DrawStep \/ FreeStep

SpecMesh == Init /\ [][NextMesh]_vars

----------------------------------------------------------------------------
(* Properties                                                              *)

RunningPcs == {"set", "draw", "free"}

\* C1: whenever a call has returned, the ids in the texture cache are the
\* ids set minus the ids freed by the calls so far, each call's set applied
\* before its free.
C1_CacheKeysFollowSetAndFree == pc = "returned" => DOMAIN paints = live

\* a call has returned and left T1 cached but not T0
C1_Witness == pc = "returned" /\ DOMAIN paints = {"T1"} /\ live = {"T1"}

\* C2: within a call no primitive is drawn before every set entry is
\* applied, no id is removed before the last primitive is drawn, and a mesh
\* whose texture was cached at entry or set by this call never misses its
\* paint, whether or not the id is in this call's free set.
C2_PhasesOrdered ==
    pc \in RunningPcs \cup {"panicked"} =>
        /\ (pi > 0 \/ drawn # << >> \/ panic \in {"index", "paint", "downcast", "callback"}) => si = Len(call.set)
        /\ DOMAIN paints = keys0 \cup SetIds(call, si)
        /\ panic = "paint" =>
               call.primitives[pi + 1].mesh.texture_id \notin keys0 \cup SetIds(call, Len(call.set))
        /\ \A k \in 1..Len(drawn) :
               drawn[k].kind = "Mesh" =>
                   /\ drawn[k].texture_id \in DOMAIN paints
                   /\ drawn[k].paint = paints[drawn[k].texture_id].paint

\* every primitive is drawn, among them a mesh whose texture this call
\* created and is about to free
C2_Witness ==
    /\ pc = "free"
    /\ \E k \in 1..Len(drawn) :
           /\ drawn[k].kind = "Mesh"
           /\ drawn[k].texture_id \in call.free
           /\ drawn[k].texture_id \in SetIds(call, si) \ keys0

NextIsMesh == pc = "draw" /\ call.primitives[pi + 1].kind = "Mesh"

\* C3: drawing a mesh whose texture id has no cache entry ends the call in a
\* panic; no draw call is made for it and the loop does not go past it.
C3_MissingPaintIsFatal ==
    [][ (NextIsMesh /\ call.primitives[pi + 1].mesh.texture_id \notin DOMAIN paints)
            => (pc' = "panicked" /\ drawn' = drawn /\ pi' = pi /\ paints' = paints) ]_vars

\* the call panicked on the paint lookup while another texture was cached
C3_Witness == pc = "panicked" /\ panic = "paint" /\ DOMAIN paints = {"T1"}

NextSetEntry == call.set[si + 1]

\* C4: a patch delta for an id that neither an earlier call left cached nor
\* an earlier entry of this call set ends the call in a panic and creates
\* no entry; a patch for an id that has an entry is applied.
C4_PatchWithoutEntryIsFatal ==
    [][ (pc = "set" /\ NextSetEntry.delta.pos # NoPos /\ DeltaImage(NextSetEntry.delta.image) # NoImage)
            => IF NextSetEntry.id \in keys0 \cup SetIds(call, si)
               THEN pc' # "panicked" /\ si' = si + 1 /\ NextSetEntry.id \in DOMAIN paints'
               ELSE pc' = "panicked" /\ panic' = "patch" /\ paints' = paints
                    /\ NextSetEntry.id \notin DOMAIN paints' ]_vars

\* a patch panicked after an earlier entry of the same call was applied
C4_Witness ==
    /\ pc = "panicked" /\ panic = "patch" /\ si = 1
    /\ call.set[2].delta.pos # NoPos
    /\ call.set[2].id \notin DOMAIN paints

\* the color of the delta's pixel at q, read from the delta's pixel list
PatchContent(data, q) ==
    IF data.kind = "Color" THEN data.pixels[q[2] * data.size[1] + q[1] + 1]
    ELSE CoverageColor(data.pixels[q[2] * data.size[1] + q[1] + 1])

PatchRect(delta) ==
    << delta.pos[1], delta.pos[2],
       delta.pos[1] + delta.image.size[1], delta.pos[2] + delta.image.size[2] >>

PatchedAsClaimed(old, delta, new) ==
    /\ new.w = old.w
    /\ new.h = old.h
    /\ \A p \in Coords(old.w, old.h) :
           new.px[p] = IF InRect(p, PatchRect(delta))
                       THEN PatchContent(delta.image, << p[1] - delta.pos[1], p[2] - delta.pos[2] >>)
                       ELSE old.px[p]

\* C5: a patch applied to a cached W x H image leaves a W x H image whose
\* pixels inside the patch rectangle are the patch's and whose other pixels
\* are the old image's.
C5_PatchComposites ==
    [][ (/\ pc = "set"
         /\ NextSetEntry.delta.pos # NoPos
         /\ NextSetEntry.id \in DOMAIN paints
         /\ DeltaImage(NextSetEntry.delta.image) # NoImage)
            => /\ NextSetEntry.id \in DOMAIN paints'
               /\ PatchedAsClaimed(paints[NextSetEntry.id].image, NextSetEntry.delta,
                                   paints'[NextSetEntry.id].image) ]_vars

\* a half transparent 1x1 patch was applied at (1, 1) of a 2x2 image
C5_Witness ==
    /\ pc = "free" /\ si = 1
    /\ call.set[1].delta.pos = <<1, 1>>
    /\ call.set[1].delta.image = ColorImage(2, 1, 1)
    /\ paints["T0"].image.w = 2 /\ paints["T0"].image.h = 2
    /\ paints["T0"].image.px[<<1, 1>>] = << 21, 0, 1, 128 >>
    /\ paints["T0"].image.px[<<0, 0>>][4] = 255

MeshDraws == { k \in 1..Len(drawn) : drawn[k].kind = "Mesh" }

\* the mesh vertex that the j-th emitted vertex of draw d was copied from
SrcVertex(d, j) == d.prim.mesh.vertices[d.prim.mesh.indices[j] + 1]

\* the triangle of the j-th emitted vertex has UV (0, 0) at all corners
TriangleAllZero(d, j) ==
    \A k \in 1..3 : SrcVertex(d, 3 * ((j - 1) \div 3) + k).uv = <<0, 0>>

\* the UV the claim gives the j-th emitted vertex; 1 is 1/65536
ClaimedUv(d, j) ==
    IF TriangleAllZero(d, j)
    THEN CASE (j - 1) % 3 = 0 -> <<0, 0>>
           [] (j - 1) % 3 = 1 -> <<0, 1>>
           [] (j - 1) % 3 = 2 -> <<1, 0>>
    ELSE SrcVertex(d, j).uv

\* C6: a triangle whose three UVs are (0, 0) is emitted with the UVs (0, 0),
\* (0, 1/65536), (1/65536, 0); every other triangle is emitted with the
\* mesh's UVs, also at a vertex it shares with an all-zero triangle.
C6_UvFixup ==
    \A k \in MeshDraws :
        /\ Len(drawn[k].vertices.texs) = Len(drawn[k].prim.mesh.indices)
        /\ \A j \in 1..Len(drawn[k].vertices.texs) :
               drawn[k].vertices.texs[j] = ClaimedUv(drawn[k], j)

\* mesh vertex 1 was emitted perturbed in the triangle (1, 1, 1) and
\* unperturbed in the triangle (0, 1, 2) that follows
C6_Witness ==
    \E k \in MeshDraws :
        /\ drawn[k].prim.mesh.indices = <<1, 1, 1, 0, 1, 2>>
        /\ drawn[k].vertices.texs[2] = <<0, 1>>
        /\ drawn[k].vertices.texs[3] = <<1, 0>>
        /\ drawn[k].vertices.texs[5] = <<0, 0>>

HasNaN(pos) == pos[1] = NaN \/ pos[2] = NaN

\* C7: an emitted vertex has position (0, 0) if either coordinate of its
\* mesh vertex is NaN and the mesh vertex's position otherwise; the NaN
\* changes neither its UV nor its color (the emitted color is a function
\* of the mesh vertex's color alone and keeps its alpha).
C7_NaNPosition ==
    \A k \in MeshDraws :
        \A j \in 1..Len(drawn[k].vertices.pos) :
            /\ drawn[k].vertices.pos[j] =
                   IF HasNaN(SrcVertex(drawn[k], j).pos) THEN <<0, 0>> ELSE SrcVertex(drawn[k], j).pos
            /\ drawn[k].vertices.texs[j] = ClaimedUv(drawn[k], j)
            /\ drawn[k].vertices.colors[j][4] = SrcVertex(drawn[k], j).color[4]
            /\ \A i \in 1..Len(drawn[k].vertices.pos) :
                   SrcVertex(drawn[k], i).color = SrcVertex(drawn[k], j).color
                       => drawn[k].vertices.colors[i] = drawn[k].vertices.colors[j]

\* a triangle with a vertex NaN in y only, emitted at the origin, next to a
\* vertex that kept its position
C7_Witness ==
    \E k \in MeshDraws :
        /\ drawn[k].prim.mesh.indices = <<0, 1, 2>>
        /\ drawn[k].prim.mesh.vertices[1].pos = <<3, NaN>>
        /\ drawn[k].vertices.pos[1] = <<0, 0>>
        /\ drawn[k].vertices.pos[2] = <<5, 6>>

\* C8: the emitted color keeps alpha and has each of red, green, blue
\* replaced by channel / alpha rescaled to 0..255 (any rounding of the exact
\* quotient is accepted, for a premultiplied color of non-zero alpha); white
\* stays (255, 255, 255, 255).
C8_UnpremultiplyDivides ==
    \A k \in MeshDraws :
        \A j \in 1..Len(drawn[k].vertices.colors) :
            /\ drawn[k].vertices.colors[j][4] = SrcVertex(drawn[k], j).color[4]
            /\ SrcVertex(drawn[k], j).color = White => drawn[k].vertices.colors[j] = White
            /\ \A c \in 1..3 :
                   (/\ SrcVertex(drawn[k], j).color[4] > 0
                    /\ SrcVertex(drawn[k], j).color[c] <= SrcVertex(drawn[k], j).color[4])
                   => /\ drawn[k].vertices.colors[j][c] * SrcVertex(drawn[k], j).color[4]
                            > 255 * SrcVertex(drawn[k], j).color[c] - SrcVertex(drawn[k], j).color[4]
                      /\ drawn[k].vertices.colors[j][c] * SrcVertex(drawn[k], j).color[4]
                            < 255 * SrcVertex(drawn[k], j).color[c] + SrcVertex(drawn[k], j).color[4]

\* C9: the transform and clip under which a primitive is drawn depend only
\* on the primitive and the device scale: the same primitive drawn twice in
\* a call is drawn under the same transform and clip whatever was drawn in
\* between, and the save depth is back to its value after every primitive.
C9_PrimitivesIndependent ==
    /\ SaveCount(canvas) = 1
    /\ \A j, k \in 1..Len(drawn) :
           drawn[j].prim = drawn[k].prim
               => drawn[j].matrix = drawn[k].matrix /\ drawn[j].clip = drawn[k].clip

\* SkSamplingOptions has one filter mode, which the rasterizer uses when it
\* magnifies and when it minifies; the mip-map mode is separate.
MagnificationSampling(sampling) == sampling.filter
MinificationSampling(sampling)  == sampling.filter

\* the set entry applied last and the cache entry it built
LastEntry == call.set[si]
LastPaint == paints[LastEntry.id].paint

\* C10 as stated: magnification sampling follows the magnification filter,
\* minification sampling follows the minification filter, the mip-map mode
\* mirrors the minification filter (None with cpu_fix), tiling is clamp.
C10_FiltersIndependent ==
    (pc \in RunningPcs /\ si >= 1) =>
        /\ MagnificationSampling(LastPaint.sampling) = "Nearest"
               <=> LastEntry.delta.options.magnification = "Nearest"
        /\ MinificationSampling(LastPaint.sampling) = "Nearest"
               <=> LastEntry.delta.options.minification = "Nearest"
        /\ LastPaint.sampling.mipmap =
               IF cpu_fix THEN "None" ELSE LastEntry.delta.options.minification
        /\ LastPaint.tile_mode = <<"Clamp", "Clamp">>

\* C10 amended: the paint's one filter mode, used for magnification and for
\* minification alike, follows the magnification filter; the minification
\* filter decides the mip-map mode only (None with cpu_fix); tiling is clamp.
C10_SamplingFromFilters ==
    (pc \in RunningPcs /\ si >= 1) =>
        /\ MagnificationSampling(LastPaint.sampling) = "Nearest"
               <=> LastEntry.delta.options.magnification = "Nearest"
        /\ MinificationSampling(LastPaint.sampling) = "Nearest"
               <=> LastEntry.delta.options.magnification = "Nearest"
        /\ LastPaint.sampling.filter \in {"Nearest", "Linear"}
        /\ LastPaint.sampling.mipmap =
               IF cpu_fix THEN "None" ELSE LastEntry.delta.options.minification
        /\ LastPaint.tile_mode = <<"Clamp", "Clamp">>

\* a paint was built from a delta whose two filters differ
C10_Witness ==
    /\ pc \in RunningPcs /\ si >= 1
    /\ LastEntry.delta.options = [magnification |-> "Linear", minification |-> "Nearest"]
    /\ LastPaint.sampling.filter = "Linear"
    /\ LastPaint.sampling.mipmap = "Nearest"

====
